---- MODULE Spec2Model ----
(***************************************************************************)
(* A model of the project board of src/src/app.ts: the validator, the      *)
(* ProjectState store with its listeners, the form's submit handler and    *)
(* the drag-and-drop handlers of the two project lists.                    *)
(*                                                                         *)
(* Objects are modelled with their identity.  A Project object is an index *)
(* into heap; an array of projects is a sequence of such indices.  The     *)
(* store's backing array is projects (location 0); the array listener i    *)
(* keeps is assignedProjects[i] (location i).                              *)
(***************************************************************************)
EXTENDS Integers, Sequences, FiniteSets, TLC

(***************************************************************************)
(* Bounds of the model.                                                    *)
(***************************************************************************)
MaxProjects == 2
MaxListeners == 2

(***************************************************************************)
(* Text.  A string is a sequence of one-character strings.                 *)
(***************************************************************************)
Str(v) == [type |-> "string", str |-> v]
Num(n) == [type |-> "number", num |-> n]

\* The result of a numeric conversion that is not a number.
NaN == -1

Digits == <<"0", "1", "2", "3", "4", "5", "6", "7", "8", "9">>

IsSpace(c) == c = " "

RECURSIVE TrimStart(_)
TrimStart(s) ==
    IF s # <<>> /\ IsSpace(Head(s)) THEN TrimStart(Tail(s)) ELSE s

RECURSIVE TrimEnd(_)
TrimEnd(s) ==
    IF s # <<>> /\ IsSpace(s[Len(s)]) THEN TrimEnd(SubSeq(s, 1, Len(s) - 1)) ELSE s

\* String.prototype.trim
Trim(s) == TrimEnd(TrimStart(s))

IsDigit(c) == \E d \in DOMAIN Digits : Digits[d] = c

DigitValue(c) == (CHOOSE d \in DOMAIN Digits : Digits[d] = c) - 1

RECURSIVE DecimalValue(_)
DecimalValue(s) ==
    IF s = <<>> THEN 0
    ELSE 10 * DecimalValue(SubSeq(s, 1, Len(s) - 1)) + DigitValue(s[Len(s)])

\* The unary plus of a string over spaces, digits and letters: white space
\* is trimmed, the empty string is 0, a run of digits is its decimal value
\* and anything else is NaN.
ToNumber(s) ==
    LET t == Trim(s)
    IN  IF t = <<>> THEN 0
        ELSE IF \A k \in DOMAIN t : IsDigit(t[k]) THEN DecimalValue(t)
        ELSE NaN

RECURSIVE DecimalDigits(_)
DecimalDigits(n) ==
    IF n < 10 THEN <<Digits[n + 1]>>
    ELSE DecimalDigits(n \div 10) \o <<Digits[(n % 10) + 1]>>

\* value.toString() of a string or a number
toString(value) ==
    IF value.type = "string" THEN value.str
    ELSE IF value.num = NaN THEN <<"N", "a", "N">>
    ELSE DecimalDigits(value.num)

\* Comparisons of numbers: every comparison with NaN is false.
NumGE(a, b) == a # NaN /\ b # NaN /\ a >= b
NumLE(a, b) == a # NaN /\ b # NaN /\ a <= b

(***************************************************************************)
(* validate.  A Validatable is a record with the fields value and          *)
(* required; the optional fields minLength, maxLength, min and max are in  *)
(* its domain only when they are set.                                      *)
(***************************************************************************)
Has(validateInput, field) == field \in DOMAIN validateInput

\* A validate without its last check, the one of max.
validateMaxSkipped(validateInput) ==
    LET value == validateInput.value
        c1 == IF validateInput.required
              THEN Len(Trim(toString(value))) # 0 ELSE TRUE
        c2 == IF Has(validateInput, "minLength") /\ value.type = "string"
              THEN c1 /\ Len(value.str) >= validateInput.minLength ELSE c1
        c3 == IF Has(validateInput, "maxLength") /\ value.type = "string"
              THEN c2 /\ Len(value.str) <= validateInput.maxLength ELSE c2
        c4 == IF Has(validateInput, "min") /\ value.type = "number"
              THEN c3 /\ NumGE(value.num, validateInput.min) ELSE c3
    IN  c4

validate(validateInput) ==
    LET value == validateInput.value
        c1 == IF validateInput.required
              THEN Len(Trim(toString(value))) # 0 ELSE TRUE
        c2 == IF Has(validateInput, "minLength") /\ value.type = "string"
              THEN c1 /\ Len(value.str) >= validateInput.minLength ELSE c1
        c3 == IF Has(validateInput, "maxLength") /\ value.type = "string"
              THEN c2 /\ Len(value.str) <= validateInput.maxLength ELSE c2
        c4 == IF Has(validateInput, "min") /\ value.type = "number"
              THEN c3 /\ NumGE(value.num, validateInput.min) ELSE c3
        c5 == IF Has(validateInput, "max") /\ value.type = "number"
              THEN c4 /\ NumLE(value.num, validateInput.max) ELSE c4
    IN  c5

(***************************************************************************)
(* Projects and the store.                                                 *)
(***************************************************************************)
Active == "Active"
Finished == "Finished"
Status == {Active, Finished}

Project(id, title, description, people, status) ==
    [id |-> id, title |-> title, description |-> description,
     people |-> people, status |-> status]

\* The strings Math.random().toString() can return.  Nothing in the store
\* keeps two calls from returning the same one.
Tokens == {"0.1", "0.2"}

\* A transfer payload that is the id of no project (the empty string that
\* getData returns when nothing was set).
NoId == ""

VARIABLES
    heap,               \* the Project objects, by identity
    projects,           \* ProjectState.projects: the backing array
    listeners,          \* State.listeners: the registered functions, by kind
    assignedProjects,   \* the array each listener keeps
    calls,              \* the listener calls of the event being handled
    payload,            \* the text/plain data of the current drag
    dragged,            \* the project of the item being dragged, 0 if none
    event               \* the event handled last

vars == <<heap, projects, listeners, assignedProjects, calls, payload,
         dragged, event>>

\* The values of the records an array holds, in order.
View(h, arr) == [k \in DOMAIN arr |-> h[arr[k]]]

\* The memory a store operation works on.
Mem == [heap |-> heap, projects |-> projects,
        assigned |-> assignedProjects, calls |-> <<>>]

\* The array at a location: 0 is the store's backing array, i > 0 the array
\* kept by listener i.
ArrayAt(m, loc) == IF loc = 0 THEN m.projects ELSE m.assigned[loc]

SetArrayAt(m, loc, arr) ==
    IF loc = 0 THEN [m EXCEPT !.projects = arr]
    ELSE [m EXCEPT !.assigned[loc] = arr]

(***************************************************************************)
(* Array operations.                                                       *)
(***************************************************************************)
\* A slice() that hands out the sliced array itself.
sliceAlias(m, loc, fresh) == [loc |-> loc, mem |-> m]

\* this.projects.slice(): a new array with the same elements.  The new array
\* is the one the called listener may keep, at location fresh.
slice(m, loc, fresh) ==
    [loc |-> fresh, mem |-> SetArrayAt(m, fresh, ArrayAt(m, loc))]

RECURSIVE Filter(_, _, _)
\* Array.prototype.filter on the status field: a new array
Filter(h, arr, status) ==
    IF arr = <<>> THEN <<>>
    ELSE IF h[Head(arr)].status = status
         THEN <<Head(arr)>> \o Filter(h, Tail(arr), status)
         ELSE Filter(h, Tail(arr), status)

Reverse(arr) == [k \in DOMAIN arr |-> arr[Len(arr) + 1 - k]]

\* Array.prototype.find with the predicate project.id === projectId: the
\* first element with that id, or 0 for undefined
Find(h, arr, projectId) ==
    IF \E k \in DOMAIN arr : h[arr[k]].id = projectId
    THEN arr[CHOOSE k \in DOMAIN arr :
                /\ h[arr[k]].id = projectId
                /\ \A j \in 1..(k - 1) : h[arr[j]].id # projectId]
    ELSE 0

(***************************************************************************)
(* Listeners.  "active" and "finished" are the functions the two project   *)
(* lists register; "push", "pop" and "reverse" are listeners that change   *)
(* the array they are handed, and "edit" one that changes a field of a     *)
(* record in it.                                                           *)
(***************************************************************************)
ColumnKinds == {"active", "finished"}
ArrayKinds == {"push", "pop", "reverse"}
MutatingKinds == ArrayKinds \cup {"edit"}

ColumnStatus(type) == IF type = "active" THEN Active ELSE Finished

\* A list listener that keeps every project it is handed, whatever the
\* status.
ColumnListenerUnfiltered(m, i, type, loc) ==
    [m EXCEPT !.assigned[i] = ArrayAt(m, loc)]

\* The function ProjectList.configure registers, run by listener i on the
\* array at loc.
ColumnListener(m, i, type, loc) ==
    [m EXCEPT !.assigned[i] = Filter(m.heap, ArrayAt(m, loc), ColumnStatus(type))]

\* A listener that changes the array it was handed, in place.
ArrayListener(m, kind, loc) ==
    LET arr == ArrayAt(m, loc)
    IN  IF arr = <<>> THEN m
        ELSE CASE kind = "push"    -> SetArrayAt(m, loc, Append(arr, arr[1]))
               [] kind = "pop"     -> SetArrayAt(m, loc, SubSeq(arr, 1, Len(arr) - 1))
               [] kind = "reverse" -> SetArrayAt(m, loc, Reverse(arr))

\* A listener that writes a field of the first record of its array.
EditListener(m, loc) ==
    LET arr == ArrayAt(m, loc)
    IN  IF arr = <<>> THEN m
        ELSE [m EXCEPT !.heap[arr[1]].title = <<"x">>]

RunListener(m, i, loc) ==
    LET kind == listeners[i]
    IN  IF kind \in ColumnKinds THEN ColumnListener(m, i, kind, loc)
        ELSE IF kind \in ArrayKinds THEN ArrayListener(m, kind, loc)
        ELSE EditListener(m, loc)

\* listener(this.projects.slice()) for listener i; the call is logged with
\* the array handed over and the values of its records at that moment.
CallListener(m, i) ==
    LET s == slice(m, 0, i)
        items == ArrayAt(s.mem, s.loc)
        logged == [s.mem EXCEPT !.calls = Append(@,
                     [listener |-> i, items |-> items,
                      view |-> View(s.mem.heap, items)])]
    IN  RunListener(logged, i, s.loc)

RECURSIVE NotifyFrom(_, _, _)
\* for (const listener of this.listeners) from position k on, in the order
\* given
NotifyFrom(m, order, k) ==
    IF k > Len(order) THEN m
    ELSE NotifyFrom(CallListener(m, order[k]), order, k + 1)

\* The listeners in the reverse of the order they were registered in.
ReverseOrder == [k \in DOMAIN listeners |-> Len(listeners) + 1 - k]

\* The positions of this.listeners in the order for..of visits them.
RegistrationOrder == [k \in DOMAIN listeners |-> k]

(***************************************************************************)
(* ProjectState.                                                           *)
(***************************************************************************)
\* updateListeners(): every listener, in the order of this.listeners
updateListeners(m) == NotifyFrom(m, RegistrationOrder, 1)

\* An addProject that puts the new project first (unshift for push).
addProjectUnshift(m, title, description, numOfPeople, random) ==
    LET newProjects == Len(m.heap) + 1
        pushed == [m EXCEPT
                     !.heap = Append(@, Project(random, title, description,
                                                numOfPeople, Active)),
                     !.projects = <<newProjects>> \o @]
    IN  NotifyFrom(pushed, RegistrationOrder, 1)

\* addProject(title, description, numOfPeople), where random is what
\* Math.random().toString() returns in this call
addProject(m, title, description, numOfPeople, random) ==
    LET newProjects == Len(m.heap) + 1
        pushed == [m EXCEPT
                     !.heap = Append(@, Project(random, title, description,
                                                numOfPeople, Active)),
                     !.projects = Append(@, newProjects)]
    IN  NotifyFrom(pushed, RegistrationOrder, 1)

\* A moveProject that sets the status of every project with the id (a
\* filter and a loop for find).
moveProjectAll(m, projectId, newStatus) ==
    LET hit == {r \in DOMAIN m.heap :
                  /\ \E k \in DOMAIN m.projects : m.projects[k] = r
                  /\ m.heap[r].id = projectId
                  /\ m.heap[r].status # newStatus}
    IN  IF hit # {}
        THEN updateListeners([m EXCEPT !.heap =
                [r \in DOMAIN m.heap |->
                    IF r \in hit THEN [m.heap[r] EXCEPT !.status = newStatus]
                    ELSE m.heap[r]]])
        ELSE m

\* A moveProject that notifies whether or not it changed anything.
moveProjectAlwaysNotifies(m, projectId, newStatus) ==
    LET project == Find(m.heap, m.projects, projectId)
    IN  IF project # 0 /\ m.heap[project].status # newStatus
        THEN updateListeners([m EXCEPT !.heap[project].status = newStatus])
        ELSE updateListeners(m)

\* moveProject(projectId, newStatus)
moveProject(m, projectId, newStatus) ==
    LET project == Find(m.heap, m.projects, projectId)
    IN  IF project # 0 /\ m.heap[project].status # newStatus
        THEN updateListeners([m EXCEPT !.heap[project].status = newStatus])
        ELSE m

\* The memory after a handler has run.
Commit(m) ==
    /\ heap' = m.heap
    /\ projects' = m.projects
    /\ assignedProjects' = m.assigned
    /\ calls' = m.calls

(***************************************************************************)
(* The store's operations, called directly.                                *)
(***************************************************************************)
\* The arguments addProject is called with: values the form's validation
\* is meant to let through.
ProjectArgs ==
    { <<<<"a">>, <<"h", "e", "l", "l", "o">>, 1>>,
      <<<<"b">>, <<"w", "o", "r", "l", "d", "s">>, 10>> }

AddListener(kind) ==
    /\ Len(listeners) < MaxListeners
    /\ listeners' = Append(listeners, kind)
    /\ assignedProjects' = Append(assignedProjects, <<>>)
    /\ calls' = <<>>
    /\ event' = [op |-> "addListener", kind |-> kind]
    /\ UNCHANGED <<heap, projects, payload, dragged>>

AddProject(args, random) ==
    /\ Len(heap) < MaxProjects
    /\ Commit(addProject(Mem, args[1], args[2], args[3], random))
    /\ event' = [op |-> "addProject", title |-> args[1],
                 description |-> args[2], people |-> args[3]]
    /\ UNCHANGED <<listeners, payload, dragged>>

MoveProject(projectId, newStatus) ==
    /\ Commit(moveProject(Mem, projectId, newStatus))
    /\ event' = [op |-> "moveProject", id |-> projectId, status |-> newStatus]
    /\ UNCHANGED <<listeners, payload, dragged>>

InitStore ==
    /\ heap = <<>>
    /\ projects = <<>>
    /\ listeners = <<>>
    /\ assignedProjects = <<>>
    /\ calls = <<>>
    /\ payload = NoId
    /\ dragged = 0
    /\ event = [op |-> "init"]

NextStore ==
    \/ \E kind \in ColumnKinds : AddListener(kind)
    \/ \E args \in ProjectArgs, random \in Tokens : AddProject(args, random)
    \/ \E projectId \in Tokens \cup {NoId}, newStatus \in Status :
          MoveProject(projectId, newStatus)

\* The store with the functions the project lists register as listeners.
SpecStore == InitStore /\ [][NextStore]_vars

OneProject == <<<<"a">>, <<"h", "e", "l", "l", "o">>, 1>>

NextListeners ==
    \/ \E kind \in MutatingKinds : AddListener(kind)
    \/ \E random \in Tokens : AddProject(OneProject, random)
    \/ \E projectId \in Tokens \cup {NoId}, newStatus \in Status :
          MoveProject(projectId, newStatus)

\* The store with listeners that change what they are handed.
SpecListeners == InitStore /\ [][NextListeners]_vars

(***************************************************************************)
(* The page: the form and the two project lists.                           *)
(***************************************************************************)
\* What the user has typed into the title, description and people fields
\* when the form is submitted.
FormInputs ==
    { <<<<"a">>, <<"h", "e", "l", "l", "o">>, <<"7">>>>,
      <<<<" ">>, <<"h", "e", "l", "l", "o">>, <<"7">>>>,
      <<<<"a">>, <<"h", "i">>, <<"7">>>>,
      <<<<"a">>, <<"h", "e", "l", "l", "o">>, <<>>>>,
      <<<<"a">>, <<"h", "e", "l", "l", "o">>, <<"0">>>>,
      <<<<"a">>, <<"h", "e", "l", "l", "o">>, <<"1", "1">>>>,
      <<<<"a">>, <<"h", "e", "l", "l", "o">>, <<"x">>>> }

titleValidator(titleValue) ==
    [value |-> Str(titleValue), required |-> TRUE]

descriptionValidator(descriptionValue) ==
    [value |-> Str(descriptionValue), required |-> TRUE, minLength |-> 5]

\* The value checked is the text of the input element, not a number.
peopleValidator(peopleValue) ==
    [value |-> Str(peopleValue), required |-> TRUE, min |-> 1, max |-> 10]

\* gatherUserInputVaues(): whether the alert was raised, and what is
\* returned.  Every path returns the array.
gatherUserInputVaues(titleValue, descriptionValue, peopleValue) ==
    [alerted |-> \/ ~validate(titleValidator(titleValue))
                 \/ ~validate(descriptionValidator(descriptionValue))
                 \/ ~validate(peopleValidator(peopleValue)),
     isArray |-> TRUE,
     userInput |-> <<titleValue, descriptionValue, ToNumber(peopleValue)>>]

\* submitHandler(event)
submitHandler(m, input, random) ==
    LET gathered == gatherUserInputVaues(input[1], input[2], input[3])
    IN  IF gathered.isArray
        THEN addProject(m, gathered.userInput[1], gathered.userInput[2],
                        gathered.userInput[3], random)
        ELSE m

SubmitHandler(input, random) ==
    /\ Len(heap) < MaxProjects
    /\ Commit(submitHandler(Mem, input, random))
    /\ event' = [op |-> "submit", title |-> input[1],
                 description |-> input[2], people |-> input[3],
                 alerted |-> gatherUserInputVaues(input[1], input[2],
                                                  input[3]).alerted]
    /\ UNCHANGED <<listeners, payload, dragged>>

\* dragStartHandler(event) of the item rendered for element k of list i
DragStartHandler(i, k) ==
    /\ payload' = heap[assignedProjects[i][k]].id
    /\ dragged' = assignedProjects[i][k]
    /\ calls' = <<>>
    /\ event' = [op |-> "dragstart"]
    /\ UNCHANGED <<heap, projects, listeners, assignedProjects>>

\* The start of a drag of text that is no project item.
DragOtherText ==
    /\ payload' = NoId
    /\ dragged' = 0
    /\ calls' = <<>>
    /\ event' = [op |-> "dragother"]
    /\ UNCHANGED <<heap, projects, listeners, assignedProjects>>

\* dropHandler(event) of list i
DropHandler(i) ==
    /\ Commit(moveProject(Mem, payload, ColumnStatus(listeners[i])))
    /\ event' = [op |-> "drop", id |-> payload,
                 status |-> ColumnStatus(listeners[i])]
    /\ UNCHANGED <<listeners, payload, dragged>>

\* The page with the finished list not constructed.
InitActiveOnly ==
    /\ heap = <<>>
    /\ projects = <<>>
    /\ listeners = <<"active">>
    /\ assignedProjects = <<<<>>>>
    /\ calls = <<>>
    /\ payload = NoId
    /\ dragged = 0
    /\ event = [op |-> "init"]

\* After the module has run: new ProjectInput(), new ProjectList("active"),
\* new ProjectList("finished").
Init ==
    /\ heap = <<>>
    /\ projects = <<>>
    /\ listeners = <<"active", "finished">>
    /\ assignedProjects = <<<<>>, <<>>>>
    /\ calls = <<>>
    /\ payload = NoId
    /\ dragged = 0
    /\ event = [op |-> "init"]

Next ==
    \/ \E input \in FormInputs, random \in Tokens : SubmitHandler(input, random)
    \/ \E i \in DOMAIN listeners :
          \E k \in DOMAIN assignedProjects[i] : DragStartHandler(i, k)
    \/ DragOtherText
    \/ \E i \in DOMAIN listeners : DropHandler(i)

Spec == Init /\ [][Next]_vars

(***************************************************************************)
(* validate, called on its own.                                            *)
(***************************************************************************)
\* The values validated: strings and numbers.
ValidatedValues ==
    { Str(<<>>), Str(<<" ", " ">>), Str(<<"h", "i">>),
      Str(<<"h", "e", "l", "l", "o">>),
      Num(0), Num(7), Num(11), Num(NaN) }

\* The limits a Validatable sets, when it sets them.
ValidatedLimits ==
    { [minLength |-> 5, maxLength |-> 3, min |-> 1, max |-> 10],
      [minLength |-> 0, maxLength |-> 5, min |-> 8, max |-> 6] }

\* The Validatable objects: value and required, and any of the optional
\* fields.
Validatables ==
    { [value |-> v, required |-> r] @@ [f \in fields |-> limits[f]] :
        v \in ValidatedValues, r \in BOOLEAN,
        fields \in SUBSET {"minLength", "maxLength", "min", "max"},
        limits \in ValidatedLimits }

InitValidate ==
    /\ heap = <<>>
    /\ projects = <<>>
    /\ listeners = <<>>
    /\ assignedProjects = <<>>
    /\ calls = <<>>
    /\ payload = NoId
    /\ dragged = 0
    /\ event \in {[op |-> "input", input |-> v] : v \in Validatables}

\* validate(validateInput) on the input drawn
Validate ==
    /\ event.op = "input"
    /\ event' = [op |-> "validate", input |-> event.input,
                 result |-> validate(event.input)]
    /\ UNCHANGED <<heap, projects, listeners, assignedProjects, calls, payload,
                   dragged>>

NextValidate == Validate

SpecValidate == InitValidate /\ [][NextValidate]_vars

(***************************************************************************)
(* Properties.                                                             *)
(***************************************************************************)
\* The event handled by a step calls moveProject: directly, or from a drop.
IsMove(e) == e.op \in {"moveProject", "drop"}

\* Some project of the store has this id.
HasId(projectId) == \E k \in DOMAIN projects : heap[projects[k]].id = projectId

\* One of the three validations of the submitted fields fails.
AnyValidationFails(e) ==
    \/ ~validate(titleValidator(e.title))
    \/ ~validate(descriptionValidator(e.description))
    \/ ~validate(peopleValidator(e.people))

\* C1: a submit event in which one of the three validations fails raises
\* the alert and does not call addProject: the store's projects are the same
\* after it as before and no listener is called.
C1_InvalidSubmitAddsNothing ==
    [][(event'.op = "submit" /\ AnyValidationFails(event'))
         => /\ event'.alerted
            /\ heap' = heap
            /\ projects' = projects
            /\ calls' = <<>>]_vars

\* C2: a moveProject(id, newStatus), where a project with that id exists
\* whose status differs from newStatus, calls every listener exactly once,
\* and the snapshot handed over has that project with status newStatus and
\* its other fields as they were.
C2_MoveNotifiesOnce ==
    [][\A k \in DOMAIN projects :
         (/\ event'.op = "moveProject"
          /\ heap[projects[k]].id = event'.id
          /\ heap[projects[k]].status # event'.status)
         => /\ Len(calls') = Len(listeners)
            /\ \A i \in DOMAIN listeners :
                 Cardinality({c \in DOMAIN calls' : calls'[c].listener = i}) = 1
            /\ \A c \in DOMAIN calls' :
                 calls'[c].view[k] =
                    [heap[projects[k]] EXCEPT !.status = event'.status]]_vars

\* C3: a moveProject(id, s), where no project of the store has that id,
\* leaves every project and the collection as they were and calls no
\* listener.
C3_MoveUnknownIdIsNoOp ==
    [][(event'.op = "moveProject" /\ ~HasId(event'.id))
         => /\ heap' = heap
            /\ projects' = projects
            /\ calls' = <<>>]_vars

\* A moveProject with an id no project has was handled, in a store that
\* holds projects and has listeners.
C3_Witness ==
    /\ event.op = "moveProject"
    /\ ~HasId(event.id)
    /\ projects # <<>>
    /\ listeners # <<>>

C5_AddAppendsActive ==
    [][event'.op = "addProject"
         => /\ Len(projects') = Len(projects) + 1
            /\ \A k \in DOMAIN projects :
                 /\ projects'[k] = projects[k]
                 /\ heap'[projects[k]] = heap[projects[k]]
            /\ projects'[Len(projects')] \notin DOMAIN heap
            /\ LET new == heap'[projects'[Len(projects')]]
               IN  /\ new.status = Active
                   /\ new.title = event'.title
                   /\ new.description = event'.description
                   /\ new.people = event'.people]_vars

\* An addProject was handled in a store that already held a project of
\* another title, with a listener registered.
C5_Witness ==
    /\ event.op = "addProject"
    /\ Len(projects) = 2
    /\ heap[projects[1]].title # heap[projects[2]].title
    /\ listeners # <<>>

\* C6: no two projects of the store have the same id.
C6_IdsUnique ==
    \A j, k \in DOMAIN projects :
        j # k => heap[projects[j]].id # heap[projects[k]].id

\* C7: a submission whose title is empty after trimming, or whose
\* description is shorter than 5 characters, or whose people field is not a
\* number from 1 to 10, raises the alert.
C7_InvalidInputIsAlerted ==
    (/\ event.op = "submit"
     /\ \/ Trim(event.title) = <<>>
        \/ Len(event.description) < 5
        \/ ToNumber(event.people) \notin 1..10)
    => event.alerted

\* C8: whatever listeners do to the arrays they are handed, the store's
\* collection stays the projects created, in the order of their creation,
\* and every listener call is handed an array equal to it.
C8_ArrayIsolation ==
    /\ projects = [k \in 1..Len(heap) |-> k]
    /\ \A c \in DOMAIN calls : calls[c].items = projects

\* Two listeners were called in one round; the first changes the array it
\* is handed and keeps an array that differs from the store's.
C8_Witness ==
    /\ Len(listeners) = 2
    /\ listeners[1] \in ArrayKinds
    /\ Len(calls) = 2
    /\ Len(projects) = 2
    /\ assignedProjects[1] # projects

\* C9: the records of a snapshot that was delivered do not change in any
\* later step, and no step changes a field of a stored record other than
\* the status.
C9_SnapshotsImmutable ==
    [][/\ \A i \in DOMAIN assignedProjects :
            \A k \in DOMAIN assignedProjects[i] :
                heap'[assignedProjects[i][k]] = heap[assignedProjects[i][k]]
       /\ \A r \in DOMAIN heap :
            [heap'[r] EXCEPT !.status = heap[r].status] = heap[r]]_vars

\* C10: an addProject, and a moveProject that changes a status, calls every
\* registered listener exactly once, in the order of registration, each with
\* the whole collection as it is after the change.
C10_NotifyAllInOrder ==
    [][(\/ event'.op = "addProject"
        \/ (event'.op = "moveProject" /\ heap' # heap))
         => /\ Len(calls') = Len(listeners)
            /\ \A c \in DOMAIN calls' :
                 /\ calls'[c].listener = c
                 /\ calls'[c].items = projects'
                 /\ calls'[c].view = View(heap', projects')]_vars

\* A moveProject that changed a status was handled with two listeners
\* registered, and both were called.
C10_Witness ==
    /\ event.op = "moveProject"
    /\ Len(listeners) = 2
    /\ Len(calls) = 2

\* The position of a project in an array that holds it.
PosIn(arr, r) == CHOOSE k \in DOMAIN arr : arr[k] = r

\* C11: no step removes a project from the store or changes the order of
\* two stored projects; no step changes the id, title, description or
\* people of a project; a moveProject changes the status of at most one
\* project, and no other operation changes a status.
C11_AppendOnly ==
    [][/\ \A k \in DOMAIN projects :
            \E j \in DOMAIN projects' : projects'[j] = projects[k]
       /\ \A j, k \in DOMAIN projects :
            j < k => PosIn(projects', projects[j]) < PosIn(projects', projects[k])
       /\ \A r \in DOMAIN heap :
            /\ heap'[r].id = heap[r].id
            /\ heap'[r].title = heap[r].title
            /\ heap'[r].description = heap[r].description
            /\ heap'[r].people = heap[r].people
       /\ Cardinality({r \in DOMAIN heap : heap'[r].status # heap[r].status})
            <= (IF event'.op = "moveProject" THEN 1 ELSE 0)]_vars

\* A moveProject has changed one of two stored projects that have the same
\* id, and the listeners were called.
C11_Witness ==
    /\ event.op = "moveProject"
    /\ Len(projects) = 2
    /\ heap[projects[1]].id = heap[projects[2]].id
    /\ heap[projects[1]].status # heap[projects[2]].status
    /\ calls # <<>>

\* A number is one, and not NaN, and at least (at most) the bound.
AtLeast(n, bound) == n # NaN /\ n >= bound
AtMost(n, bound) == n # NaN /\ n <= bound

\* The conjunction of the checks that apply to a Validatable.
ApplicableChecks(v) ==
    /\ v.required => Trim(toString(v.value)) # <<>>
    /\ ("minLength" \in DOMAIN v /\ v.value.type = "string")
          => Len(v.value.str) >= v.minLength
    /\ ("maxLength" \in DOMAIN v /\ v.value.type = "string")
          => Len(v.value.str) <= v.maxLength
    /\ ("min" \in DOMAIN v /\ v.value.type = "number")
          => AtLeast(v.value.num, v.min)
    /\ ("max" \in DOMAIN v /\ v.value.type = "number")
          => AtMost(v.value.num, v.max)

\* C12: validate returns the conjunction of the checks that apply: required
\* on the trimmed string form, the length bounds on strings only, the
\* numeric bounds on numbers only.  The empty required string is invalid,
\* "hi" with minLength 5 is invalid, 7 within 1..10 is valid and 11 with
\* max 10 is invalid.
C12_ValidateIsConjunction ==
    event.op = "validate"
    => /\ event.result = ApplicableChecks(event.input)
       /\ event.input = [value |-> Str(<<>>), required |-> TRUE]
            => event.result = FALSE
       /\ event.input = [value |-> Str(<<"h", "i">>), required |-> TRUE,
                         minLength |-> 5]
            => event.result = FALSE
       /\ event.input = [value |-> Num(7), required |-> TRUE,
                         min |-> 1, max |-> 10]
            => event.result = TRUE
       /\ event.input = [value |-> Num(11), required |-> TRUE, max |-> 10]
            => event.result = FALSE

\* validate has judged 11 with max 10, and found it invalid.
C12_Witness ==
    /\ event.op = "validate"
    /\ event.input = [value |-> Num(11), required |-> TRUE, max |-> 10]
    /\ event.result = FALSE

\* C13: a project is created Active, and a moveProject with the id of a
\* stored project and the status it does not have gives that project the
\* new status, from Active to Finished and from Finished to Active.
C13_EitherDirection ==
    [][/\ event'.op = "addProject"
            => heap'[projects'[Len(projects')]].status = Active
       /\ \A k \in DOMAIN projects :
            (/\ event'.op = "moveProject"
             /\ event'.id = heap[projects[k]].id
             /\ event'.status # heap[projects[k]].status)
            => heap'[projects[k]].status = event'.status]_vars

\* C14: after a drop on a list of the item of project p, p has the status of
\* that list, p is among the assigned projects of that list and not of the
\* other, and no other project has changed its status.
C14_DropMovesDragged ==
    [][(event'.op = "drop" /\ dragged # 0)
         => /\ heap'[dragged].status = event'.status
            /\ \A i \in DOMAIN listeners :
                 (\E k \in DOMAIN assignedProjects'[i] :
                      assignedProjects'[i][k] = dragged)
                 <=> ColumnStatus(listeners[i]) = event'.status
            /\ \A r \in DOMAIN heap :
                 r # dragged => heap'[r].status = heap[r].status]_vars

\* The projects an array holds.
Elements(arr) == {arr[k] : k \in DOMAIN arr}

\* C15: between events each list holds exactly the stored projects of its
\* status, in the order of the store, so that every stored project is in
\* exactly one list.
C15_ColumnsPartition ==
    /\ \A i \in DOMAIN listeners :
         LET arr == assignedProjects[i]
         IN  /\ Elements(arr) =
                  {r \in Elements(projects) :
                      heap[r].status = ColumnStatus(listeners[i])}
             /\ \A j, k \in DOMAIN arr :
                  j < k => PosIn(projects, arr[j]) < PosIn(projects, arr[k])
    /\ \A r \in Elements(projects) :
         Cardinality({i \in DOMAIN listeners :
                         r \in Elements(assignedProjects[i])}) = 1

\* Both lists hold projects.
C15_Witness ==
    /\ event.op = "drop"
    /\ assignedProjects[1] # <<>>
    /\ assignedProjects[2] # <<>>
    /\ Len(projects) = 2

\* C16: the listeners of both lists are registered whenever an event is
\* handled, and every step that changes the store calls both.
C16_NoNotificationMissed ==
    [][/\ \A kind \in ColumnKinds :
            \E i \in DOMAIN listeners : listeners[i] = kind
       /\ (heap' # heap \/ projects' # projects)
            => \A kind \in ColumnKinds :
                 \E c \in DOMAIN calls' :
                    listeners[calls'[c].listener] = kind]_vars

\* A drop has changed the store and both listeners were called.
C16_Witness ==
    /\ event.op = "drop"
    /\ Len(calls) = 2
    /\ listeners[calls[1].listener] = "active"
    /\ listeners[calls[2].listener] = "finished"

====
